---- MODULE Spec2Model ----
(***************************************************************************)
(* InsteadMan: the command-line entry point (cmd/insteadman/main.go), the  *)
(* interpreter finder (core/interpreter_finder), the game info screen and  *)
(* the settings screen of the Fyne front end.                              *)
(*                                                                         *)
(* A behaviour exercises one of the four components, named by `program`:   *)
(*   "cli"       one run of the insteadman command,                        *)
(*   "gameinfo"  the GameInfoScreen and its Install/Run/Delete buttons,    *)
(*   "settings"  the SettingsScreen's Detect and Check buttons,            *)
(*   "finder"    one call of InterpreterFinder.Check.                      *)
(* Strings whose characters matter (game names, keywords, the output of    *)
(* the interpreter) are sequences of one-character strings.                *)
(***************************************************************************)
EXTENDS Integers, Sequences, FiniteSets, TLC

VARIABLES
    program,        \* which component this behaviour exercises
    \* ---- cmd/insteadman ----
    command,        \* strings.ToLower(cli.GetCommand(args))
    keyword,        \* cli.GetCommandArg(args): NoKeyword (nil) or a string
    pc,             \* "start" | "dispatch" | "done" | "exited"
    exitCode,       \* the exit status, once pc is "done" or "exited"
    downloaded,     \* m.HasDownloadedRepositories()
    needRepositoriesUpdate, \* the local of main, line 18
    config,         \* m.Config.InterpreterCommand (in memory)
    savedConfig,    \* interpreter_command of config.yml (on disk)
    calls,          \* the calls made and messages printed so far, in order
    fs,             \* the filesystem the Detect button's Find() probed
    found,          \* what the last Find() returned
    saveArg,        \* the InterpreterCommand of the config handed to SaveConfig
    filteredGames,  \* the candidates handed to getOrExitIfNoGame
    resolved,       \* what getOrExitIfNoGame returned (NotFound: it exited)
    \* ---- GameInfoScreen ----
    games,          \* the Game objects the screen's pointers refer to
    sizes,          \* sizes[i]: the Size field of games[i]
    scrGame,        \* scr.game: an index into games, 0 for nil
    installVisible, \* scr.installButton
    runVisible,     \* scr.runButton
    deleteVisible,  \* scr.deleteButton
    progVisible,    \* the progress dialog of the Install handler
    installPc,      \* where the Install handler is: "idle" | "InstallGame"
    onRefreshSet,   \* onRefresh != nil
    last,           \* what the last button handler did
    \* ---- SettingsScreen ----
    pathText,       \* the "INSTEAD path" entry
    pathInfo,       \* the pathInfo label's text, as the pieces it is made of
    pathInfoVisible,
    checkIn,        \* the subprocess outcome Check() met, or is about to meet
    checkOut        \* what that Check() returned

vars == <<program, command, keyword, pc, exitCode, downloaded,
          needRepositoriesUpdate, config, savedConfig, calls, fs, found,
          saveArg, filteredGames, resolved, games, sizes, scrGame, installVisible,
          runVisible, deleteVisible, progVisible, installPc, onRefreshSet,
          last, pathText, pathInfo, pathInfoVisible, checkIn, checkOut>>

cliVars == <<command, keyword, pc, exitCode, downloaded,
             needRepositoriesUpdate, config, savedConfig, calls, fs, found,
             saveArg, filteredGames, resolved>>
screenVars == <<games, sizes, scrGame, installVisible, runVisible, deleteVisible,
                progVisible, installPc, onRefreshSet, last>>
settingsVars == <<pathText, pathInfo, pathInfoVisible, checkIn, checkOut>>

----------------------------------------------------------------------------
(* Bounds *)

\* how many candidate paths exactFilePaths() lists
NumCandidates == 3
\* the longest catalog
MaxGames == 2
\* the longest standard output of `<interpreter> -version`
MaxOutLen == 3
\* the longest such output while the settings screen is open
MaxButtonOutLen == 2
\* the largest exit status of the subprocess
MaxExitCode == 1
\* the largest Size of a game, in chunks of the download
MaxSize == 2

----------------------------------------------------------------------------
(* Strings *)

\* unicode.ToLower on the letters in use
LowerChar(c) == CASE c = "A" -> "a" [] c = "B" -> "b" [] OTHER -> c

\* strings.ToLower
ToLower(s) == [i \in 1..Len(s) |-> LowerChar(s[i])]

\* strings.Contains
Contains(s, sub) ==
    \E i \in 0..(Len(s) - Len(sub)) :
        \A j \in 1..Len(sub) : s[i + j] = sub[j]

\* all sequences over S of length at most n
SeqUpTo(S, n) == UNION {[1..k -> S] : k \in 0..n}

----------------------------------------------------------------------------
(* core/interpreter_finder *)

\* a nil *string
Nil == -1
\* the empty interpreter command
EmptyCommand == 0

\* exactFilePaths(): the ordered candidate paths; path i is the i-th one
exactFilePaths == [i \in 1..NumCandidates |-> i]

\* an interpreter command the user configured by hand (no candidate path)
CustomCommand == NumCandidates + 1

\* What os.Stat meets at a path: a file it can stat ("file"), nothing
\* ("missing": ErrNotExist), or an entry that is there but that Stat cannot
\* reach, as under a directory without search permission ("unreadable":
\* an error that is not ErrNotExist).
StatKinds == {"file", "missing", "unreadable"}
Filesystems == [1..NumCandidates -> StatKinds]

\* os.Stat(path): the error it returns
Stat(fsx, path) ==
    CASE fsx[path] = "file" -> "nil"
      [] fsx[path] = "missing" -> "ErrNotExist"
      [] OTHER -> "EACCES"

\* os.IsNotExist(e)
IsNotExist(e) == e = "ErrNotExist"

RECURSIVE FindFrom_ExistsOnly(_, _)
\* FindFrom without the `e == nil` test: whatever is not ErrNotExist wins
FindFrom_ExistsOnly(fsx, i) ==
    IF i > Len(exactFilePaths)
    THEN Nil
    ELSE LET path == exactFilePaths[i]
             e == Stat(fsx, path)
             exists == ~IsNotExist(e)
         IN  IF exists THEN path ELSE FindFrom_ExistsOnly(fsx, i + 1)

RECURSIVE FindFrom(_, _)
FindFrom(fsx, i) ==
    IF i > Len(exactFilePaths)
    THEN Nil
    ELSE LET path == exactFilePaths[i]
             e == Stat(fsx, path)
             exists == ~IsNotExist(e)
         IN  IF exists /\ e = "nil" THEN path ELSE FindFrom(fsx, i + 1)

\* InterpreterFinder.Find
Find(fsx) == FindFrom(fsx, 1)

\* The standard output of the subprocess
OutChars == {"3", " ", "\n", "\r"}
Outputs(n) == SeqUpTo(OutChars, n)

\* What running `<command> -version` can meet: the process is not spawned, or
\* it ends with an exit status (-1, as ExitCode() reports it, when a signal
\* ended it) having written `out`.
NotSpawned == [spawned |-> FALSE, exitStatus |-> 0, out |-> <<>>]
OutcomesUpTo(n) ==
    {NotSpawned}
    \cup [spawned : {TRUE}, exitStatus : -1..MaxExitCode, out : Outputs(n)]
Outcomes == OutcomesUpTo(MaxOutLen)
ButtonOutcomes == OutcomesUpTo(MaxButtonOutLen)

\* exec.Cmd.Output: the output and the error
CmdOutput(o) ==
    IF ~o.spawned THEN [out |-> <<>>, e |-> "spawn"]
    ELSE IF o.exitStatus # 0 THEN [out |-> o.out, e |-> "ExitError"]
    ELSE [out |-> o.out, e |-> "nil"]

RECURSIVE Replace_NewlineOnly(_)
\* Replace with a replacer of "\n" alone
Replace_NewlineOnly(s) ==
    IF s = <<>> THEN <<>>
    ELSE IF Head(s) = "\n" THEN Replace_NewlineOnly(Tail(s))
    ELSE <<Head(s)>> \o Replace_NewlineOnly(Tail(s))

RECURSIVE Replace(_)
\* strings.NewReplacer("\n", "", "\r", "").Replace
Replace(s) ==
    IF s = <<>> THEN <<>>
    ELSE IF Head(s) = "\n" \/ Head(s) = "\r" THEN Replace(Tail(s))
    ELSE <<Head(s)>> \o Replace(Tail(s))

\* Check returning what was captured along with the error
Check_KeepsOutputOnError(o) ==
    LET r == CmdOutput(o)
    IN  [version |-> Replace(r.out), e |-> r.e]

\* InterpreterFinder.Check
Check(o) ==
    LET r == CmdOutput(o)
    IN  IF r.e # "nil"
        THEN [version |-> <<>>, e |-> r.e]
        ELSE [version |-> Replace(r.out), e |-> "nil"]

----------------------------------------------------------------------------
(* The catalog *)

\* game names, titles and keywords
Words == {<<"a">>, <<"A">>, <<"a", "b">>}
Titles == {<<"A">>, <<"b">>}

\* manager.Game: the fields the commands and the screen read
Games == [Name : Words, Title : Titles, Installed : BOOLEAN]
Catalogs == SeqUpTo(Games, MaxGames)

\* cli.GetCommandArg: <<>> for nil, <<k>> for a pointer to k
NoKeyword == <<>>
Keywords == {NoKeyword} \cup {<<k>> : k \in Words \cup {<<"b">>}}

\* manager.FilterGames(games, keyword, nil, nil, false): the games whose name
\* or title contains the keyword, ignoring case, in the order of games
FilterGames(gs, k) ==
    LET match(g) == \/ Contains(ToLower(g.Name), ToLower(k))
                    \/ Contains(ToLower(g.Title), ToLower(k))
    IN  SelectSeq(gs, match)

\* the zero Game, where no game was resolved
NoGame == [Name |-> <<>>, Title |-> <<>>, Installed |-> FALSE]

RECURSIVE FirstByName(_, _, _)
\* the range loop of getOrExitIfNoGame: 0 when no name matches
FirstByName(gs, k, i) ==
    IF i > Len(gs) THEN 0
    ELSE IF ToLower(gs[i].Name) = ToLower(k) THEN i
    ELSE FirstByName(gs, k, i + 1)

\* getOrExitIfNoGame comparing the names as they are written
getOrExitIfNoGame_CaseSensitive(gs, k) ==
    IF Len(gs) < 1
    THEN [outcome |-> "notfound", game |-> NoGame]
    ELSE IF \E i \in 1..Len(gs) : gs[i].Name = k
    THEN [outcome |-> "game",
          game |-> gs[CHOOSE i \in 1..Len(gs) :
                         /\ gs[i].Name = k
                         /\ \A j \in 1..(i - 1) : gs[j].Name # k]]
    ELSE [outcome |-> "game", game |-> gs[1]]

\* getOrExitIfNoGame: "notfound" stands for the message and os.Exit(1)
getOrExitIfNoGame(gs, k) ==
    IF Len(gs) < 1
    THEN [outcome |-> "notfound", game |-> NoGame]
    ELSE LET i == FirstByName(gs, k, 1)
         IN  IF i # 0
             THEN [outcome |-> "game", game |-> gs[i]]
             ELSE [outcome |-> "game", game |-> gs[1]]

\* manager.InstallGame: on success the game is marked installed
InstallGame(g, fails) == IF fails THEN g ELSE [g EXCEPT !.Installed = TRUE]

\* manager.RemoveGame: on success the game is marked not installed
RemoveGame(g, fails) == IF fails THEN g ELSE [g EXCEPT !.Installed = FALSE]

----------------------------------------------------------------------------
(* cmd/insteadman: the operations of main.go on the state of one run *)

Commands == {"update", "list", "search", "show", "run", "install", "remove",
             "findinterpreter", "repositories", "langs", "configpath",
             "version", "help"}

\* the part of the state the operations below change
CliState ==
    [downloaded |-> downloaded, config |-> config, savedConfig |-> savedConfig,
     calls |-> calls, found |-> found, saveArg |-> saveArg,
     exited |-> FALSE]

Log(s, ops) == [s EXCEPT !.calls = @ \o ops]

\* cli.ExitIfError(e) with e != nil, and os.Exit(1)
Exit(s) == [s EXCEPT !.exited = TRUE]

\* m.InterpreterCommand()
InterpreterCommand(s) == s.config

\* update: UpdateRepositories downloads the indexes; ok: one at least arrived
update(s, ok) ==
    [Log(s, <<"UpdateRepositories">>) EXCEPT !.downloaded = @ \/ ok]

\* findInterpreter saving the configuration before it sets the path
findInterpreter_SavesBeforeSet(s, fsx, saveFails) ==
    LET path == Find(fsx)
        s1 == [Log(s, <<"Find">>) EXCEPT !.found = path]
    IN  IF path = Nil
        THEN Log(s1, <<"print:INSTEAD has not found">>)
        ELSE LET s2 == Log(s1, <<"print:INSTEAD has found">>)
                 s3 == [Log(s2, <<"SaveConfig">>) EXCEPT !.saveArg = s2.config,
                                                         !.config = path]
             IN  IF saveFails
                 THEN Exit(s3)
                 ELSE Log([s3 EXCEPT !.savedConfig = s3.saveArg],
                          <<"print:Path has saved">>)

\* findInterpreter
findInterpreter(s, fsx, saveFails) ==
    LET path == Find(fsx)
        s1 == [Log(s, <<"Find">>) EXCEPT !.found = path]
    IN  IF path = Nil
        THEN Log(s1, <<"print:INSTEAD has not found">>)
        ELSE LET s2 == [Log(s1, <<"print:INSTEAD has found">>)
                            EXCEPT !.config = path]
                 s3 == [Log(s2, <<"SaveConfig">>) EXCEPT !.saveArg = s2.config]
             IN  IF saveFails
                 THEN Exit(s3)
                 ELSE Log([s3 EXCEPT !.savedConfig = s3.saveArg],
                          <<"print:Path has saved">>)

\* how initManagerAndConfigurator can go: the path of the executable is not
\* found (os.Executable or utils.BinAbsDir fails), config.yml is not read
\* (c.GetConfig fails), or the manager is built
InitResults == {"ok", "ExecutableError", "ConfigError"}

\* initManagerAndConfigurator: the configuration is read from config.yml
initManagerAndConfigurator(s, res) ==
    LET s1 == Log(s, <<"os.Executable">>)
    IN  IF res = "ExecutableError"
        THEN Exit(s1)
        ELSE LET s2 == Log(s1, <<"GetConfig">>)
             IN  IF res = "ConfigError"
                 THEN Exit(s2)
                 ELSE [s2 EXCEPT !.config = s.savedConfig]

\* checkInterpreterAndReinit
checkInterpreterAndReinit(s, fsx, saveFails, res) ==
    IF InterpreterCommand(s) = EmptyCommand
    THEN LET s1 == findInterpreter(s, fsx, saveFails)
         IN  IF s1.exited THEN s1
             ELSE initManagerAndConfigurator(s1, res)
    ELSE s

\* the switch of main, lines 22-33: a case without statements does nothing
\* (Go's cases do not fall through)
mainSwitch(s, need, ok, fsx, saveFails, res) ==
    CASE command = "list" -> s
      [] command = "search" -> s
      [] command = "langs" -> IF need THEN update(s, ok) ELSE s
      [] command = "run" -> s
      [] command = "install" ->
            checkInterpreterAndReinit(s, fsx, saveFails, res)
      [] OTHER -> s

\* the state a handler leaves, and the end of main
SetCli(s) ==
    /\ downloaded' = s.downloaded
    /\ config' = s.config
    /\ savedConfig' = s.savedConfig
    /\ calls' = s.calls
    /\ found' = s.found
    /\ saveArg' = s.saveArg

Finish(s) ==
    /\ SetCli(s)
    /\ pc' = IF s.exited THEN "exited" ELSE "done"
    /\ exitCode' = IF s.exited THEN 1 ELSE 0

\* printHelpAndExit
printHelpAndExit(s) == Exit(Log(s, <<"print:help">>))

\* The head the handlers install, show, run and remove share: the catalog is
\* read (cat, or the error e), the keyword is looked at, the games are
\* filtered and one is resolved.
lookup(s, cat, e) ==
    LET s1 == Log(s, <<"GetSortedGames">>)
    IN  IF e THEN [s |-> Exit(s1), filtered |-> <<>>,
                   r |-> [outcome |-> "none", game |-> NoGame]]
        ELSE IF keyword = NoKeyword
        THEN [s |-> printHelpAndExit(s1), filtered |-> <<>>,
              r |-> [outcome |-> "none", game |-> NoGame]]
        ELSE LET fg == FilterGames(cat, keyword[1])
                 r == getOrExitIfNoGame(fg, keyword[1])
             IN  IF r.outcome = "notfound"
                 THEN [s |-> Exit(Log(s1, <<"print:has not found">>)),
                       filtered |-> fg, r |-> r]
                 ELSE [s |-> s1, filtered |-> fg, r |-> r]

\* the catalogs GetSortedGames can return: none before the first download
CatalogsNow == IF downloaded THEN Catalogs ELSE {<<>>}

----------------------------------------------------------------------------
(* cmd/insteadman: the steps of one run *)

NoResolve == [outcome |-> "none", game |-> NoGame]

\* main, lines 17-33: the manager is built (the process ends there when it
\* cannot be), needRepositoriesUpdate is read, the switch runs
main ==
    /\ program = "cli"
    /\ pc = "start"
    /\ \E res0 \in InitResults :
        LET s0 == initManagerAndConfigurator(CliState, res0)
        IN  IF s0.exited
            THEN /\ UNCHANGED needRepositoriesUpdate
                 /\ SetCli(s0)
                 /\ pc' = "exited"
                 /\ exitCode' = 1
            ELSE \E ok \in BOOLEAN, fsx \in Filesystems,
                    saveFails \in BOOLEAN, res1 \in InitResults :
                  LET need == ~s0.downloaded
                      s == mainSwitch(s0, need, ok, fsx, saveFails, res1)
                  IN  /\ needRepositoriesUpdate' = need
                      /\ SetCli(s)
                      /\ pc' = IF s.exited THEN "exited" ELSE "dispatch"
                      /\ exitCode' = IF s.exited THEN 1 ELSE 0
    /\ UNCHANGED <<program, command, keyword, fs, filteredGames, resolved>>
    /\ UNCHANGED <<screenVars, settingsVars>>

\* what every handler leaves alone
HandlerFrame ==
    /\ UNCHANGED <<program, command, keyword, needRepositoriesUpdate, fs>>
    /\ UNCHANGED <<sizes, scrGame, installVisible, runVisible, deleteVisible,
                   progVisible, installPc, onRefreshSet, last>>
    /\ UNCHANGED settingsVars

Dispatch(c) == program = "cli" /\ pc = "dispatch" /\ command = c

\* runCommand, case "update"
cmdUpdate ==
    /\ Dispatch("update")
    /\ \E ok \in BOOLEAN : Finish(update(CliState, ok))
    /\ UNCHANGED <<games, filteredGames, resolved>>
    /\ HandlerFrame

\* list
list ==
    /\ Dispatch("list")
    /\ \E cat \in CatalogsNow, e \in BOOLEAN :
        LET s1 == Log(CliState, <<"GetSortedGamesByDateDesc">>)
        IN  /\ Finish(IF e THEN Exit(s1) ELSE Log(s1, <<"printGames">>))
            /\ games' = IF e THEN games ELSE cat
    /\ UNCHANGED <<filteredGames, resolved>>
    /\ HandlerFrame

\* search
search ==
    /\ Dispatch("search")
    /\ \E cat \in CatalogsNow, e \in BOOLEAN :
        LET s1 == Log(CliState, <<"GetSortedGames">>)
        IN  IF e
            THEN Finish(Exit(s1)) /\ UNCHANGED <<games, filteredGames>>
            ELSE IF keyword = NoKeyword
            THEN /\ Finish(printHelpAndExit(s1))
                 /\ games' = cat
                 /\ UNCHANGED filteredGames
            ELSE /\ Finish(Log(s1, <<"printGames">>))
                 /\ games' = cat
                 /\ filteredGames' = FilterGames(cat, keyword[1])
    /\ UNCHANGED resolved
    /\ HandlerFrame

\* show
show ==
    /\ Dispatch("show")
    /\ \E cat \in CatalogsNow, e \in BOOLEAN :
        LET l == lookup(CliState, cat, e)
        IN  /\ Finish(IF l.s.exited THEN l.s ELSE Log(l.s, <<"print:game">>))
            /\ games' = IF e THEN games ELSE cat
            /\ filteredGames' = l.filtered
            /\ resolved' = l.r
    /\ HandlerFrame

\* run without the test of game.Installed
run_WithoutInstalledCheck ==
    /\ Dispatch("run")
    /\ \E cat \in CatalogsNow, e \in BOOLEAN, runFails \in BOOLEAN :
        LET l == lookup(CliState, cat, e)
            s == IF l.s.exited THEN l.s
                 ELSE IF runFails
                 THEN Exit(Log(l.s, <<"RunGame">>))
                 ELSE Log(l.s, <<"RunGame", "print:Running">>)
        IN  /\ Finish(s)
            /\ games' = IF e THEN games ELSE cat
            /\ filteredGames' = l.filtered
            /\ resolved' = l.r
    /\ HandlerFrame

\* run
run ==
    /\ Dispatch("run")
    /\ \E cat \in CatalogsNow, e \in BOOLEAN, runFails \in BOOLEAN :
        LET l == lookup(CliState, cat, e)
            s == IF l.s.exited THEN l.s
                 ELSE IF ~l.r.game.Installed
                 THEN Exit(Log(l.s, <<"print:isn't installed">>))
                 ELSE IF runFails
                 THEN Exit(Log(l.s, <<"RunGame">>))
                 ELSE Log(l.s, <<"RunGame", "print:Running">>)
        IN  /\ Finish(s)
            /\ games' = IF e THEN games ELSE cat
            /\ filteredGames' = l.filtered
            /\ resolved' = l.r
    /\ HandlerFrame

\* install
install ==
    /\ Dispatch("install")
    /\ \E cat \in CatalogsNow, e \in BOOLEAN, installFails \in BOOLEAN :
        LET l == lookup(CliState, cat, e)
            s == IF l.s.exited THEN l.s
                 ELSE IF installFails
                 THEN Exit(Log(l.s, <<"InstallGame">>))
                 ELSE Log(l.s, <<"InstallGame", "print:has installed">>)
        IN  /\ Finish(s)
            /\ games' = IF e THEN games ELSE cat
            /\ filteredGames' = l.filtered
            /\ resolved' = l.r
    /\ HandlerFrame

\* remove
remove ==
    /\ Dispatch("remove")
    /\ \E cat \in CatalogsNow, e \in BOOLEAN, removeFails \in BOOLEAN :
        LET l == lookup(CliState, cat, e)
            s == IF l.s.exited THEN l.s
                 ELSE IF removeFails
                 THEN Exit(Log(l.s, <<"RemoveGame">>))
                 ELSE Log(l.s, <<"RemoveGame", "print:has removed">>)
        IN  /\ Finish(s)
            /\ games' = IF e THEN games ELSE cat
            /\ filteredGames' = l.filtered
            /\ resolved' = l.r
    /\ HandlerFrame

\* runCommand, case "findinterpreter"
cmdFindInterpreter ==
    /\ Dispatch("findinterpreter")
    /\ \E fsx \in Filesystems, saveFails \in BOOLEAN :
        Finish(findInterpreter(CliState, fsx, saveFails))
    /\ UNCHANGED <<games, filteredGames, resolved>>
    /\ HandlerFrame

\* repositories
repositories ==
    /\ Dispatch("repositories")
    /\ Finish(Log(CliState, <<"GetRepositories">>))
    /\ UNCHANGED <<games, filteredGames, resolved>>
    /\ HandlerFrame

\* langs
langs ==
    /\ Dispatch("langs")
    /\ \E cat \in CatalogsNow, e \in BOOLEAN :
        LET s1 == Log(CliState, <<"GetSortedGames">>)
        IN  /\ Finish(IF e THEN Exit(s1) ELSE Log(s1, <<"FindLangs">>))
            /\ games' = IF e THEN games ELSE cat
    /\ UNCHANGED <<filteredGames, resolved>>
    /\ HandlerFrame

\* printConfigPath
printConfigPath ==
    /\ Dispatch("configpath")
    /\ Finish(Log(CliState, <<"print:configpath">>))
    /\ UNCHANGED <<games, filteredGames, resolved>>
    /\ HandlerFrame

\* printVersion
printVersion ==
    /\ Dispatch("version")
    /\ Finish(Log(CliState, <<"print:version">>))
    /\ UNCHANGED <<games, filteredGames, resolved>>
    /\ HandlerFrame

\* runCommand, default
cmdDefault ==
    /\ program = "cli" /\ pc = "dispatch"
    /\ command = "help"
    /\ Finish(printHelpAndExit(CliState))
    /\ UNCHANGED <<games, filteredGames, resolved>>
    /\ HandlerFrame

----------------------------------------------------------------------------
(* GameInfoScreen: the buttons of the game info screen.  The labels, the  *)
(* link and the image UpdateInfo also sets are not part of the state.      *)

NoHandler ==
    [op |-> "none", err |-> FALSE, before |-> FALSE, ranInstalled |-> FALSE,
     updateInfo |-> FALSE, refreshed |-> FALSE, errorShown |-> FALSE,
     shown |-> FALSE, progress |-> <<>>]

\* UpdateInfo leaving the Install button shown for an installed game
UpdateInfo_KeepsInstallShown(g) ==
    IF g.Installed
    THEN [install |-> TRUE, run |-> TRUE, delete |-> TRUE]
    ELSE [install |-> TRUE, run |-> FALSE, delete |-> FALSE]

\* GameInfoScreen.UpdateInfo, the Buttons part: which buttons are shown
UpdateInfo(g) ==
    IF g.Installed
    THEN [install |-> FALSE, run |-> TRUE, delete |-> TRUE]
    ELSE [install |-> TRUE, run |-> FALSE, delete |-> FALSE]

SetButtons(b) ==
    /\ installVisible' = b.install
    /\ runVisible' = b.run
    /\ deleteVisible' = b.delete

ScreenFrame ==
    /\ UNCHANGED <<program, onRefreshSet, sizes>>
    /\ UNCHANGED cliVars
    /\ UNCHANGED settingsVars

\* The window hands its events to the handlers one at a time: no handler of
\* the screen starts while the Install handler is inside InstallGame.
Idle == installPc = "idle"

\* a game is selected in the list: scr.UpdateInfo(g)
SelectGame ==
    /\ program = "gameinfo"
    /\ Idle
    /\ \E i \in 1..Len(games) :
        /\ scrGame' = i
        /\ SetButtons(UpdateInfo(games[i]))
        /\ last' = [NoHandler EXCEPT !.op = "UpdateInfo", !.updateInfo = TRUE,
                                     !.before = games[i].Installed]
    /\ UNCHANGED <<games, progVisible, installPc>>
    /\ ScreenFrame

\* The cumulative byte counts InstallGame hands to its progress callback:
\* strictly increasing, and ending at the game's size when the install
\* succeeds.
ProgressRuns(size, fails) ==
    {pr \in SeqUpTo(0..size, size + 1) :
        /\ \A i \in 1..(Len(pr) - 1) : pr[i] < pr[i + 1]
        /\ ~fails => (pr # <<>> /\ pr[Len(pr)] = size)}

\* the callback hiding the dialog only past the game's size
progressCallback_StrictlyGreater(visible, n, size) ==
    IF n > size THEN FALSE ELSE visible

\* the progress callback of the Install handler: whether the dialog is
\* visible after it (the value it sets on the bar is not part of the state)
progressCallback(visible, n, size) ==
    IF n >= size THEN FALSE ELSE visible

\* the Install button's handler, up to its call of InstallGame: the progress
\* dialog is shown and the handler waits for the download
installButton ==
    /\ program = "gameinfo"
    /\ Idle
    /\ installVisible
    /\ progVisible' = TRUE
    /\ installPc' = "InstallGame"
    /\ last' = [NoHandler EXCEPT !.op = "Install",
                    !.before = games[scrGame].Installed,
                    !.shown = TRUE]
    /\ UNCHANGED <<games, scrGame, installVisible, runVisible, deleteVisible>>
    /\ ScreenFrame

\* InstallGame calls the progress callback with the next count n
installProgress ==
    /\ program = "gameinfo"
    /\ installPc = "InstallGame"
    /\ \E n \in 0..sizes[scrGame] :
        /\ Append(last.progress, n) \in ProgressRuns(sizes[scrGame], TRUE)
        /\ progVisible' = progressCallback(progVisible, n, sizes[scrGame])
        /\ last' = [last EXCEPT !.progress = Append(@, n)]
    /\ UNCHANGED <<games, scrGame, installVisible, runVisible, deleteVisible,
                   installPc>>
    /\ ScreenFrame

\* the rest of the Install handler, marking the game installed before it
\* looks at err
installReturn_MarksBeforeCheck ==
    /\ program = "gameinfo"
    /\ installPc = "InstallGame"
    /\ \E fails \in BOOLEAN :
        /\ last.progress \in ProgressRuns(sizes[scrGame], fails)
        /\ LET g == InstallGame(games[scrGame], fails)
               g2 == [g EXCEPT !.Installed = TRUE]
               err == fails
           IN  IF err
               THEN /\ progVisible' = FALSE
                    /\ games' = [games EXCEPT ![scrGame] = g2]
                    /\ last' = [last EXCEPT !.err = TRUE, !.errorShown = TRUE]
                    /\ UNCHANGED <<installVisible, runVisible, deleteVisible>>
               ELSE /\ UNCHANGED progVisible
                    /\ games' = [games EXCEPT ![scrGame] = g2]
                    /\ SetButtons(UpdateInfo(g2))
                    /\ last' = [last EXCEPT !.updateInfo = TRUE,
                                            !.refreshed = onRefreshSet]
    /\ installPc' = "idle"
    /\ UNCHANGED scrGame
    /\ ScreenFrame

\* the rest of the Install handler, from the return of InstallGame: on an
\* error the dialog is hidden and the error shown; otherwise the game is
\* marked installed, the buttons are set and onRefresh is called
installReturn ==
    /\ program = "gameinfo"
    /\ installPc = "InstallGame"
    /\ \E fails \in BOOLEAN :
        /\ last.progress \in ProgressRuns(sizes[scrGame], fails)
        /\ LET g == InstallGame(games[scrGame], fails)
               err == fails
           IN  IF err
               THEN /\ progVisible' = FALSE
                    /\ games' = [games EXCEPT ![scrGame] = g]
                    /\ last' = [last EXCEPT !.err = TRUE, !.errorShown = TRUE]
                    /\ UNCHANGED <<installVisible, runVisible, deleteVisible>>
               ELSE LET g2 == [g EXCEPT !.Installed = TRUE]
                    IN  /\ UNCHANGED progVisible
                        /\ games' = [games EXCEPT ![scrGame] = g2]
                        /\ SetButtons(UpdateInfo(g2))
                        /\ last' = [last EXCEPT !.updateInfo = TRUE,
                                                !.refreshed = onRefreshSet]
    /\ installPc' = "idle"
    /\ UNCHANGED scrGame
    /\ ScreenFrame

\* the Run button's handler
runButton ==
    /\ program = "gameinfo"
    /\ Idle
    /\ runVisible
    /\ last' = [NoHandler EXCEPT !.op = "RunGame",
                    !.before = games[scrGame].Installed,
                    !.ranInstalled = games[scrGame].Installed]
    /\ UNCHANGED <<games, scrGame, installVisible, runVisible, deleteVisible,
                   progVisible, installPc>>
    /\ ScreenFrame

\* the Delete button's handler
deleteButton ==
    /\ program = "gameinfo"
    /\ Idle
    /\ deleteVisible
    /\ \E fails \in BOOLEAN :
        LET g == RemoveGame(games[scrGame], fails)
            g2 == [g EXCEPT !.Installed = FALSE]
        IN  /\ games' = [games EXCEPT ![scrGame] = g2]
            /\ SetButtons(UpdateInfo(g2))
            /\ last' = [NoHandler EXCEPT !.op = "Delete", !.err = fails,
                            !.before = games[scrGame].Installed,
                            !.updateInfo = TRUE, !.refreshed = onRefreshSet]
    /\ UNCHANGED <<scrGame, progVisible, installPc>>
    /\ ScreenFrame

----------------------------------------------------------------------------
(* SettingsScreen: the Detect and Check buttons of the main tab *)

NoCheck == [version |-> <<>>, e |-> "none"]
NoFilesystem == [i \in 1..NumCandidates |-> "missing"]

SettingsFrame ==
    /\ UNCHANGED <<program, command, keyword, pc, exitCode, downloaded,
                   needRepositoriesUpdate, config, savedConfig, calls,
                   saveArg, filteredGames, resolved>>
    /\ UNCHANGED screenVars

\* fmt.Sprintf("INSTEAD %s has found!", version)
Sprintf(version) == <<"INSTEAD ">> \o version \o <<" has found!">>

\* the Detect button's handler
detectButton ==
    /\ program = "settings"
    /\ \E fsx \in Filesystems :
        LET cmd == Find(fsx)
        IN  /\ fs' = fsx
            /\ found' = cmd
            /\ pathText' = IF cmd # Nil THEN cmd ELSE pathText
            /\ pathInfo' = IF cmd # Nil THEN <<"INSTEAD has detected!">>
                           ELSE <<"INSTEAD hasn't detected!">>
            /\ pathInfoVisible' = TRUE
    /\ checkIn' = NotSpawned
    /\ checkOut' = NoCheck
    /\ SettingsFrame

\* the Check button's handler; builtin: m.IsBuiltinInterpreterCommand()
checkButton ==
    /\ program = "settings"
    /\ \E o \in ButtonOutcomes, builtin \in BOOLEAN :
        LET r == Check(o)
        IN  /\ checkIn' = o
            /\ checkOut' = r
            /\ pathInfo' = IF r.e # "nil"
                           THEN IF builtin
                                THEN <<"INSTEAD built-in check failed!">>
                                ELSE <<"INSTEAD check failed!">>
                           ELSE Sprintf(r.version)
            /\ pathInfoVisible' = TRUE
    /\ fs' = NoFilesystem
    /\ found' = Nil
    /\ UNCHANGED pathText
    /\ SettingsFrame

----------------------------------------------------------------------------
(* InterpreterFinder.Check, called once on what the subprocess does *)

CallCheck ==
    /\ program = "finder"
    /\ checkOut = NoCheck
    /\ checkOut' = Check(checkIn)
    /\ UNCHANGED <<program, checkIn, pathText, pathInfo, pathInfoVisible>>
    /\ UNCHANGED cliVars
    /\ UNCHANGED screenVars

----------------------------------------------------------------------------
(* The specification *)

\* the catalogs of the screen: its handlers read no field but Installed
ScreenCatalogs ==
    {c \in Catalogs : /\ Len(c) >= 1
                      /\ \A i \in 1..Len(c) : /\ c[i].Name = <<"a">>
                                              /\ c[i].Title = <<"A">>}

InitCli ==
    /\ program = "cli"
    /\ command \in Commands
    /\ keyword \in Keywords
    /\ pc = "start"
    /\ downloaded \in BOOLEAN
    /\ savedConfig \in {EmptyCommand, CustomCommand}
    /\ games = <<>>
    /\ sizes = <<>>
    /\ onRefreshSet = FALSE
    /\ checkIn = NotSpawned

InitScreen ==
    /\ program = "gameinfo"
    /\ command = "help"
    /\ keyword = NoKeyword
    /\ pc = "none"
    /\ downloaded = TRUE
    /\ savedConfig = CustomCommand
    /\ games \in ScreenCatalogs
    /\ sizes \in [1..Len(games) -> 0..MaxSize]
    /\ onRefreshSet \in BOOLEAN
    /\ checkIn = NotSpawned

InitSettings ==
    /\ program = "settings"
    /\ command = "help"
    /\ keyword = NoKeyword
    /\ pc = "none"
    /\ downloaded = TRUE
    /\ savedConfig \in {EmptyCommand, CustomCommand}
    /\ games = <<>>
    /\ sizes = <<>>
    /\ onRefreshSet = FALSE
    /\ checkIn = NotSpawned

InitFinder ==
    /\ program = "finder"
    /\ command = "help"
    /\ keyword = NoKeyword
    /\ pc = "none"
    /\ downloaded = TRUE
    /\ savedConfig = CustomCommand
    /\ games = <<>>
    /\ sizes = <<>>
    /\ onRefreshSet = FALSE
    /\ checkIn \in Outcomes

Init ==
    /\ (InitCli \/ InitScreen \/ InitSettings \/ InitFinder)
    /\ exitCode = 0
    /\ needRepositoriesUpdate = FALSE
    /\ config = savedConfig
    /\ calls = <<>>
    /\ fs = NoFilesystem
    /\ found = Nil
    /\ saveArg = Nil
    /\ filteredGames = <<>>
    /\ resolved = NoResolve
    /\ scrGame = 0
    /\ installVisible = FALSE
    /\ runVisible = FALSE
    /\ deleteVisible = FALSE
    /\ progVisible = FALSE
    /\ installPc = "idle"
    /\ last = NoHandler
    /\ pathText = config
    /\ pathInfo = <<>>
    /\ pathInfoVisible = FALSE
    /\ checkOut = NoCheck

Next ==
    \/ main
    \/ cmdUpdate \/ list \/ search \/ show \/ run \/ install \/ remove
    \/ cmdFindInterpreter \/ repositories \/ langs \/ printConfigPath
    \/ printVersion \/ cmdDefault
    \/ SelectGame \/ installButton \/ installProgress \/ installReturn
    \/ runButton \/ deleteButton
    \/ detectButton \/ checkButton
    \/ CallCheck

Spec == Init /\ [][Next]_vars

----------------------------------------------------------------------------
(* Helpers of the properties *)

Range(f) == {f[i] : i \in DOMAIN f}

Min(S) == CHOOSE x \in S : \A y \in S : x <= y

\* the place of the first op of ops in the log, 0 when there is none
FirstCall(log, ops) ==
    IF \E i \in DOMAIN log : log[i] \in ops
    THEN Min({i \in DOMAIN log : log[i] \in ops})
    ELSE 0

CatalogReads == {"GetSortedGames", "GetSortedGamesByDateDesc"}

\* strings.TrimSpace on the characters in use
IsSpace(c) == c \in {" ", "\n", "\r"}
TrimSpace(s) ==
    LET keep == {i \in DOMAIN s : ~IsSpace(s[i])}
    IN  IF keep = {} THEN <<>>
        ELSE LET lo == Min(keep)
                 hi == CHOOSE x \in keep : \A y \in keep : y <= x
             IN  [i \in 1..(hi - lo + 1) |-> s[lo + i - 1]]

----------------------------------------------------------------------------
(* Properties *)

\* C1: for list, search and langs, when no repository data has been
\* downloaded at startup, a repository update runs before the handler reads
\* the catalog.
C1_UpdateBeforeCatalogRead ==
    (/\ program = "cli"
     /\ command \in {"list", "search", "langs"}
     /\ needRepositoriesUpdate
     /\ FirstCall(calls, CatalogReads) # 0)
    => /\ FirstCall(calls, {"UpdateRepositories"}) # 0
       /\ FirstCall(calls, {"UpdateRepositories"}) < FirstCall(calls, CatalogReads)


\* C2: RunGame is only invoked for a game whose Installed flag is true.  The
\* run command, when the resolved game is not installed, prints the
\* not-installed message and exits with status 1 without calling RunGame; on
\* the screen the Run button is visible only while the displayed game's
\* Installed flag is true.
C2_RunOnlyInstalled ==
    /\ (program = "cli" /\ "RunGame" \in Range(calls))
        => resolved.outcome = "game" /\ resolved.game.Installed
    /\ (/\ program = "cli" /\ command = "run"
        /\ resolved.outcome = "game" /\ ~resolved.game.Installed)
        => /\ pc = "exited" /\ exitCode = 1
           /\ "RunGame" \notin Range(calls)
           /\ calls[Len(calls)] = "print:isn't installed"
    /\ (program = "gameinfo" /\ last.op = "RunGame") => last.ranInstalled
    /\ (program = "gameinfo" /\ runVisible)
        => scrGame # 0 /\ games[scrGame].Installed

C2_Witness ==
    /\ program = "cli" /\ command = "run" /\ pc = "exited"
    /\ resolved.outcome = "game" /\ ~resolved.game.Installed

\* C3: the Delete handler sets the displayed game's Installed flag to false
\* only when RemoveGame succeeded: when RemoveGame returns an error the flag
\* keeps its value and the Run and Delete buttons stay visible.
C3_DeleteKeepsFlagOnError ==
    (program = "gameinfo" /\ last.op = "Delete" /\ last.err)
    => /\ games[scrGame].Installed = last.before
       /\ runVisible /\ deleteVisible

\* C4: after the Install handler, started on a game that is not installed,
\* the Installed flag is true exactly when InstallGame returned no error;
\* when it returned an error the flag is false, the error is shown and
\* neither UpdateInfo nor onRefresh has run.
C4_InstallFlag ==
    (program = "gameinfo" /\ last.op = "Install" /\ Idle /\ ~last.before)
    => /\ games[scrGame].Installed <=> ~last.err
       /\ last.err => /\ ~games[scrGame].Installed
                      /\ last.errorShown
                      /\ ~last.updateInfo
                      /\ ~last.refreshed

C4_Witness ==
    /\ program = "gameinfo" /\ last.op = "Install" /\ Idle /\ last.err
    /\ ~last.before /\ ~games[scrGame].Installed /\ onRefreshSet

\* C5: getOrExitIfNoGame returns the first candidate whose name equals the
\* keyword ignoring case when there is one, otherwise the first candidate;
\* it reports "not found" (message, exit status 1) exactly when there is no
\* candidate.
C5_Resolve ==
    (program = "cli" /\ resolved.outcome # "none")
    => LET gs == filteredGames
           k == keyword[1]
           exact == {i \in 1..Len(gs) : ToLower(gs[i].Name) = ToLower(k)}
       IN  /\ resolved.outcome = "notfound" <=> gs = <<>>
           /\ resolved.outcome = "notfound"
                => /\ pc = "exited" /\ exitCode = 1
                   /\ calls[Len(calls)] = "print:has not found"
           /\ exact # {} => resolved.game = gs[Min(exact)]
           /\ (exact = {} /\ gs # <<>>) => resolved.game = gs[1]

C5_Witness ==
    /\ program = "cli" /\ resolved.outcome = "game"
    /\ Len(filteredGames) = 2
    /\ ToLower(filteredGames[1].Name) # ToLower(keyword[1])
    /\ ToLower(filteredGames[2].Name) = ToLower(keyword[1])
    /\ filteredGames[2].Name # keyword[1]
    /\ resolved.game = filteredGames[2]
    /\ resolved.game # filteredGames[1]

\* C6 as stated: Find returns the earliest candidate that exists on the
\* filesystem, and nil exactly when no candidate exists.
C6_FindFirstExisting ==
    program = "settings"
    => LET existing == {i \in 1..NumCandidates : fs[i] # "missing"}
       IN  /\ found = Nil <=> existing = {}
           /\ existing # {} => found = exactFilePaths[Min(existing)]

\* C6, amended: Find returns the earliest candidate that os.Stat succeeds
\* on, and nil exactly when Stat fails on every candidate; a candidate that
\* is there but cannot be stat'ed is passed over.
C6_FindFirstStatable ==
    program = "settings"
    => LET statable == {i \in 1..NumCandidates : fs[i] = "file"}
       IN  /\ found = Nil <=> statable = {}
           /\ statable # {} => found = exactFilePaths[Min(statable)]

C6_Witness ==
    /\ program = "settings"
    /\ fs[1] = "unreadable" /\ fs[2] = "file" /\ fs[3] = "file"
    /\ found = exactFilePaths[2]

\* C7: Check returns an error and an empty version when the subprocess is
\* not spawned or exits with a non-zero status, no error otherwise, and
\* never an error together with a non-empty version.
C7_CheckError ==
    checkOut.e # "none"
    => /\ (~checkIn.spawned \/ checkIn.exitStatus # 0)
            => checkOut.e # "nil" /\ checkOut.version = <<>>
       /\ (checkIn.spawned /\ checkIn.exitStatus = 0) => checkOut.e = "nil"
       /\ ~(checkOut.e # "nil" /\ checkOut.version # <<>>)

C7_Witness ==
    /\ checkOut.e = "ExitError" /\ checkIn.exitStatus # 0
    /\ checkIn.out # <<>> /\ checkOut.version = <<>>

\* C8 as stated: on success the version is the output without leading or
\* trailing whitespace and without its terminating line ending.
C8_VersionTrimmed ==
    checkOut.e = "nil" => checkOut.version = TrimSpace(checkIn.out)

\* C8, amended: on success the version is the output with every "\n" and
\* every "\r" removed, wherever it stands (between two kept characters too),
\* and nothing else changed: spaces, leading and trailing ones too, are kept.
C8_VersionWithoutLineEndings ==
    checkOut.e = "nil"
    => LET keep(c) == c # "\n" /\ c # "\r"
       IN  checkOut.version = SelectSeq(checkIn.out, keep)

C8_Witness ==
    /\ checkOut.e = "nil"
    /\ checkIn.out = <<" ", "\n", "3">>
    /\ checkOut.version = <<" ", "3">>

\* C9: for run and install, when the configured interpreter command is empty
\* at startup, findInterpreter and the re-initialisation of the manager are
\* performed before the handler is dispatched.
C9_DetectBeforeDispatch ==
    [][(/\ program = "cli" /\ command \in {"run", "install"}
        /\ config = EmptyCommand
        /\ pc = "start" /\ pc' = "dispatch")
       => LET f == FirstCall(calls', {"Find"})
          IN  /\ f # 0
              /\ \E g \in (f + 1)..Len(calls') : calls'[g] = "GetConfig"]_vars

\* C10: findInterpreter, when Find returns nil, prints a message and returns
\* without ending the process, leaves the interpreter command of the
\* configuration as it was and does not save the configuration; when Find
\* returns a path, the interpreter command is that path when the
\* configuration is saved.
C10_FindInterpreter ==
    [][(/\ program = "cli"
        /\ FirstCall(calls, {"Find"}) = 0
        /\ FirstCall(calls', {"Find"}) # 0)
       => LET i == FirstCall(calls', {"Find"})
          IN  IF found' = Nil
              THEN /\ calls'[i + 1] = "print:INSTEAD has not found"
                   /\ "SaveConfig" \notin Range(calls')
                   /\ saveArg' = Nil
                   /\ config' = config
                   /\ savedConfig' = savedConfig
                   /\ \/ pc' = "done" /\ exitCode' = 0
                      \/ Len(calls') > i + 1 /\ calls'[i + 2] = "os.Executable"
              ELSE /\ calls'[i + 2] = "SaveConfig"
                   /\ saveArg' = found'
                   /\ config' = found'
                   /\ \/ savedConfig' = found'
                      \/ pc' = "exited" /\ savedConfig' = savedConfig]_vars

C10_Witness ==
    /\ program = "cli" /\ command = "findinterpreter" /\ pc = "done"
    /\ exitCode = 0 /\ found = Nil /\ saveArg = Nil
    /\ "Find" \in Range(calls)


\* C11: when the Install handler has returned, the progress dialog it opened
\* is hidden, whether InstallGame failed or succeeded.
C11_ProgressDialogHidden ==
    (program = "gameinfo" /\ last.op = "Install" /\ Idle /\ last.shown)
    => ~progVisible

C11_Witness ==
    /\ program = "gameinfo" /\ last.op = "Install" /\ Idle /\ last.shown
    /\ ~last.err
    /\ Len(last.progress) = 2
    /\ last.progress[1] < sizes[scrGame]
    /\ ~progVisible

\* C12: after a game selection, a completed Install or a Delete, the buttons
\* match the displayed game's Installed flag: Install is visible exactly when
\* the flag is false, Run and Delete exactly when it is true, so Install and
\* Run are never visible together.
C12_ButtonsMatchInstalled ==
    (/\ program = "gameinfo"
     /\ \/ last.op \in {"UpdateInfo", "Delete"}
        \/ last.op = "Install" /\ Idle /\ ~last.err)
    => /\ scrGame # 0
       /\ installVisible <=> ~games[scrGame].Installed
       /\ runVisible <=> games[scrGame].Installed
       /\ deleteVisible <=> games[scrGame].Installed
       /\ ~(installVisible /\ runVisible)

C12_Witness ==
    /\ program = "gameinfo" /\ last.op = "Install" /\ Idle /\ ~last.err
    /\ games[scrGame].Installed
    /\ ~installVisible /\ runVisible /\ deleteVisible

====
